---- MODULE Spec2Model ----
(***************************************************************************)
(* Model of slappd (src/slappd.py): the interval job `main` walks          *)
(* UNTAPPD_USERS, and process_user_checkins fetches one user's check-ins,  *)
(* moves the user's entry of LAST_CHECKIN and posts Slack messages.        *)
(*                                                                         *)
(* What the network does is the environment's choice: the answer to the    *)
(* Untappd request (`net`) and the number of Slack posts that get through  *)
(* (`ok`).  Python values that the code compares across types (the int 0   *)
(* default against the str cursor) keep their type.                        *)
(***************************************************************************)
EXTENDS Integers, Sequences, FiniteSets, TLC

\* ---------------------------------------------------------------- bounds
\* largest check-in id a user's upstream stream reaches
MaxId == 2
\* most badges one check-in carries
MaxBadges == 1

\* ------------------------------------------------------- configuration
UNTAPPD_USERS == <<"alice", "bob">>

Users == {UNTAPPD_USERS[i] : i \in 1..Len(UNTAPPD_USERS)}

\* ------------------------------------------------------- Python values
PyInt(n) == [type |-> "int", v |-> n]

\* str(x): the decimal text of x; a str never equals an int
str(x) == [type |-> "str", v |-> x.v]

\* '{}'.format(x): int 7 and str "7" both print as 7
format(x) == x.v

\* dict.get(key, default)
dict_get(d, k, default) == IF k \in DOMAIN d THEN d[k] ELSE default

\* d[k] = v
dict_set(d, k, v) == [x \in (DOMAIN d) \cup {k} |-> IF x = k THEN v ELSE d[x]]

\* ------------------------------------------------------------ upstream
\* upstream[u] is the number of check-ins u has made; their ids are
\* 1..upstream[u], per user, so two users' streams hold equal ids.  The
\* check-in with id i carries badges_of(i) badges
badges_of(i) == (i + 1) % (MaxBadges + 1)

Checkin(i) == [checkin_id |-> i, badges |-> badges_of(i)]

\* every ordering of every subset of S
Orderings(S) ==
    {q \in UNION {[1..k -> S] : k \in 0..Cardinality(S)} :
        \A i, j \in 1..Len(q) : i # j => q[i] # q[j]}

RECURSIVE Descending(_)
\* the ids of S, newest first
Descending(S) ==
    IF S = {} THEN <<>>
    ELSE LET m == CHOOSE x \in S : \A y \in S : y <= x
         IN  <<m>> \o Descending(S \ {m})

\* ------------------------------------------------- answers to requests.get
\* the JSON body of an answer: data['meta'] and data['response']['checkins']
Json(code, error_type, items) ==
    [kind |-> "json",
     meta |-> [code |-> code, error_type |-> error_type],
     response |-> [checkins |-> [count |-> Len(items), items |-> items]]]

\* an attempt that yields no body
NoBody(kind) ==
    [kind |-> kind,
     meta |-> [code |-> 0, error_type |-> ""],
     response |-> [checkins |-> [count |-> 0, items |-> <<>>]]]

\* what can happen to one request whatever it asks for.  "IndexError": the
\* format call of lines 82-89 has six replacement fields and five arguments
\* (UNTAPPD_API_BASE is not passed), and str.format raises before the
\* request is made
Failures ==
    {NoBody("IndexError"), NoBody("Timeout"), NoBody("RequestException"),
     Json(500, "invalid_limit", <<>>), Json(500, "invalid_auth", <<>>)}

\* an API that answers with any of the user's check-ins, in any order
AnyBatch(u, up, minid) ==
    {Json(200, "", [i \in 1..Len(p) |-> Checkin(p[i])]) :
        p \in Orderings(1..up[u])}

\* an API that honours min_id: the check-ins newer than min_id, newest
\* first
NewerBatch(u, up, minid) ==
    LET p == Descending({i \in 1..up[u] : i > minid})
    IN  {Json(200, "", [i \in 1..Len(p) |-> Checkin(p[i])])}

\* ------------------------------------------------------------- slappd.py
\* the request asks for everything: min_id is not the cursor
min_id_zero(last_checkin) == format(PyInt(0))

\* the min_id the request carries
min_id(last_checkin) == format(last_checkin)

\* returns the JSON body, or raises
fetch_untappd_activity(userid, last_checkin, net) ==
    IF net.kind = "IndexError"
    THEN [raises |-> "IndexError", data |-> net]
    ELSE IF net.kind = "Timeout"
    THEN [raises |-> "SystemExit", data |-> net]
    ELSE IF net.kind = "RequestException"
    THEN [raises |-> "SystemExit", data |-> net]
    ELSE [raises |-> "none", data |-> net]

\* text is a sequence of tokens; a token with markup = TRUE is a tag <...>
Token(checkin, part, b, markup) ==
    [checkin_id |-> checkin.checkin_id, part |-> part, badge |-> b,
     markup |-> markup]

\* checkin['checkin_comment'] as Untappd sends it: the check-ins with an odd
\* id carry the comment "<br>nice pour", the others carry none
checkin_comment(checkin) ==
    IF checkin.checkin_id % 2 = 1
    THEN <<Token(checkin, "comment", 0, TRUE),
           Token(checkin, "comment", 0, FALSE)>>
    ELSE <<>>

\* the text the loop body adds for one check-in: the <url|name> links and
\* the words the code writes, then the comment if there is one
Line(checkin) ==
    <<Token(checkin, "link", 0, TRUE), Token(checkin, "words", 0, FALSE)>>
    \o (IF Len(checkin_comment(checkin)) # 0
        THEN checkin_comment(checkin)
        ELSE <<>>)

\* badge['badge_description'] as Untappd sends it: words inside a tag
Description(checkin, b) ==
    <<Token(checkin, "description", b, TRUE),
      Token(checkin, "description", b, FALSE),
      Token(checkin, "description", b, TRUE)>>

\* re.sub(r'<[^>]*?>', '', text): the tags go, the rest stays in order
strip_html(text) == SelectSeq(text, LAMBDA t : ~t.markup)

\* the payload slack_message posts; thumb = 0 stands for None
slack_message(text, icon, title, thumb) ==
    IF thumb # 0
    THEN [shape |-> "badge", title |-> title, text |-> strip_html(text),
          thumb_url |-> thumb, icon_url |-> icon]
    ELSE [shape |-> "checkin", title |-> 0, text |-> text,
          thumb_url |-> 0, icon_url |-> icon]

\* the badges of a check-in are never posted
badge_messages_none(checkin) == <<>>

\* the posts of the inner loop over checkin['badges']['items']
badge_messages(checkin) ==
    [b \in 1..checkin.badges |->
        slack_message(Description(checkin, b), checkin.checkin_id,
                      checkin.checkin_id, b)]

RECURSIVE checkin_messages(_, _)
\* the posts of the loop over checkins, `text` being the text so far
checkin_messages(checkins, text) ==
    IF checkins = <<>> THEN <<>>
    ELSE LET checkin == Head(checkins)
             t == text \o Line(checkin)
         IN  <<slack_message(t, checkin.checkin_id, 0, 0)>>
             \o badge_messages(checkin)
             \o checkin_messages(Tail(checkins), t)

\* max(items, key=itemgetter('checkin_id'))['checkin_id']
max_checkin_id(items) ==
    CHOOSE m \in {items[i].checkin_id : i \in 1..Len(items)} :
        \A i \in 1..Len(items) : items[i].checkin_id <= m

\* the default compared as text: '0' is never the int 0
first_run_str(prev_last_checkin) == prev_last_checkin = str(PyInt(0))

\* `if prev_last_checkin == 0`: the user had no entry
first_run(prev_last_checkin) == prev_last_checkin = PyInt(0)

\* the cursor dropped when the API refuses
api_error_reset(LC, userid, data) ==
    [LAST_CHECKIN |-> [x \in (DOMAIN LC) \ {userid} |-> LC[x]],
     sent |-> <<>>, raises |-> "RuntimeError"]

\* a response whose code is not 200: RuntimeError, the dict left alone
api_error(LC, userid, data) ==
    [LAST_CHECKIN |-> LC, sent |-> <<>>, raises |-> "RuntimeError"]

\* no `if count:`: an empty batch stores str(0)
record_unguarded(LC, userid, data) ==
    IF data.response.checkins.count # 0
    THEN dict_set(LC, userid,
                  str(PyInt(max_checkin_id(data.response.checkins.items))))
    ELSE dict_set(LC, userid, str(PyInt(0)))

\* one cursor for all: every entry takes the batch's newest id
record_global(LC, userid, data) ==
    IF data.response.checkins.count # 0
    THEN [x \in (DOMAIN LC) \cup {userid} |->
            str(PyInt(max_checkin_id(data.response.checkins.items)))]
    ELSE LC

\* `if count:` then LAST_CHECKIN[userid] = str(max id of the batch)
record(LC, userid, data) ==
    IF data.response.checkins.count # 0
    THEN dict_set(LC, userid,
                  str(PyInt(max_checkin_id(data.response.checkins.items))))
    ELSE LC

\* the cursor written after the loop: a call that a failed post ends leaves
\* the dict as it was
process_user_checkins_late(LC, userid, net, ok) ==
    LET prev_last_checkin == dict_get(LC, userid, PyInt(0))
        f == fetch_untappd_activity(userid, prev_last_checkin, net)
        data == f.data
        items == data.response.checkins.items
    IN  IF f.raises # "none"
        THEN [LAST_CHECKIN |-> LC, sent |-> <<>>, raises |-> f.raises]
        ELSE IF data.meta.code = 200
        THEN LET seeded == data.response.checkins.count # 0
                 LC1 == record(LC, userid, data)
                 calls == checkin_messages(items, <<>>)
                 n == IF ok < Len(calls) THEN ok ELSE Len(calls)
             IN  IF seeded /\ first_run(prev_last_checkin)
                 THEN [LAST_CHECKIN |-> LC1, sent |-> <<>>, raises |-> "none"]
                 ELSE IF n < Len(calls)
                 THEN [LAST_CHECKIN |-> LC, sent |-> SubSeq(calls, 1, n),
                       raises |-> "SystemExit"]
                 ELSE [LAST_CHECKIN |-> LC1, sent |-> calls, raises |-> "none"]
        ELSE api_error(LC, userid, data)

\* one call: the dict afterwards, the posts that got through, what it raises
process_user_checkins(LC, userid, net, ok) ==
    LET prev_last_checkin == dict_get(LC, userid, PyInt(0))
        f == fetch_untappd_activity(userid, prev_last_checkin, net)
        data == f.data
        items == data.response.checkins.items
    IN  IF f.raises # "none"
        THEN [LAST_CHECKIN |-> LC, sent |-> <<>>, raises |-> f.raises]
        ELSE IF data.meta.code = 200
        THEN LET seeded == data.response.checkins.count # 0
                 LC1 == record(LC, userid, data)
                 calls == checkin_messages(items, <<>>)
                 n == IF ok < Len(calls) THEN ok ELSE Len(calls)
             IN  IF seeded /\ first_run(prev_last_checkin)
                 THEN [LAST_CHECKIN |-> LC1, sent |-> <<>>, raises |-> "none"]
                 ELSE [LAST_CHECKIN |-> LC1, sent |-> SubSeq(calls, 1, n),
                       raises |-> IF n < Len(calls) THEN "SystemExit"
                                  ELSE "none"]
        ELSE api_error(LC, userid, data)

\* `except Exception`: SystemExit derives from BaseException only
IsException(e) == e \in {"IndexError", "RuntimeError"}

\* ----------------------------------------------------------------- state
VARIABLES
    LAST_CHECKIN,   \* the dict of cursors
    upstream,       \* how many check-ins each user has made
    pc,             \* "scheduled", "callback", "raised", "exited"
    idx,            \* position of main's loop in UNTAPPD_USERS
    raised,         \* what the current invocation of main raised
    log,            \* the last message of scheduled_job.run
    fetched,        \* users whose fetch was called in this invocation
    seen,           \* per user: no check-in since its last answer with code 200
    step,           \* the last call of process_user_checkins
    \* untappd.py, the single-run script
    lastseen,       \* 'lastseen' of untappd.cfg, as the file holds it
    upc,            \* "idle", "loop", "except", "crashed", "end"
    udata,          \* the answer to the request of this run
    ui,             \* position of the loop in the answer's items
    unotified,      \* posts of this run that got through
    uraised,        \* what this run raised
    uwritten,       \* untappd.cfg was written in this run
    ubefore         \* 'lastseen' when this run started

vars == <<LAST_CHECKIN, upstream, pc, idx, raised, log, fetched, seen, step>>

uvars == <<lastseen, upc, udata, ui, unotified, uraised, uwritten, ubefore>>

EmptyDict == [x \in {} |-> PyInt(0)]

NoStep ==
    [userid |-> "", before |-> EmptyDict, net |-> NoBody("none"),
     sent |-> <<>>, raises |-> "none", same |-> FALSE]

\* untappd.py has not run; the file holds the 'lastseen' ls
InitUntappd(ls) ==
    /\ lastseen = ls
    /\ upc = "idle"
    /\ udata = NoBody("none")
    /\ ui = 1
    /\ unotified = 0
    /\ uraised = "none"
    /\ uwritten = FALSE
    /\ ubefore = ls

Init ==
    /\ InitUntappd(str(PyInt(0)))
    /\ LAST_CHECKIN = EmptyDict
    /\ upstream = [u \in Users |-> 0]
    /\ pc = "scheduled"
    /\ idx = 1
    /\ raised = "none"
    /\ log = "Registered"
    /\ fetched = {}
    /\ seen = [u \in Users |-> FALSE]
    /\ step = NoStep

\* a user checks in upstream: the next id of that user's stream
checkin(u) ==
    /\ upstream[u] < MaxId
    /\ upstream' = [upstream EXCEPT ![u] = @ + 1]
    /\ seen' = [seen EXCEPT ![u] = FALSE]
    /\ UNCHANGED <<LAST_CHECKIN, pc, idx, raised, log, fetched, step>>
    /\ UNCHANGED uvars

\* the interval fires: run logs 'starting' and enters the callback
run ==
    /\ pc = "scheduled"
    /\ pc' = "callback"
    /\ idx' = 1
    /\ raised' = "none"
    /\ log' = "starting"
    /\ fetched' = {}
    /\ UNCHANGED <<LAST_CHECKIN, upstream, seen, step>>
    /\ UNCHANGED uvars

\* the number of posts the loop attempts for an answer: none when the call
\* returns at the first-run test
posts(prev_last_checkin, net) ==
    IF net.response.checkins.count # 0 /\ first_run(prev_last_checkin)
    THEN 0
    ELSE Len(checkin_messages(net.response.checkins.items, <<>>))

\* process_user_checkins(userid) inside main's loop: the request is answered
\* by net, and ok posts get through before one fails
main_user(userid, net, ok) ==
    LET r == process_user_checkins(LAST_CHECKIN, userid, net, ok)
    IN  /\ LAST_CHECKIN' = r.LAST_CHECKIN
        /\ step' = [userid |-> userid, before |-> LAST_CHECKIN, net |-> net,
                    sent |-> r.sent, raises |-> r.raises,
                    same |-> seen[userid]]
        /\ seen' = IF net.kind = "json" /\ net.meta.code = 200
                   THEN [seen EXCEPT ![userid] = TRUE]
                   ELSE seen
        /\ fetched' = fetched \cup {userid}
        /\ raised' = r.raises
        /\ IF r.raises = "none"
           THEN idx' = idx + 1 /\ pc' = pc
           ELSE idx' = idx /\ pc' = "raised"
        /\ UNCHANGED <<upstream, log>>
        /\ UNCHANGED uvars

\* one iteration of main's loop, the API answering with any batch
main ==
    /\ pc = "callback"
    /\ idx <= Len(UNTAPPD_USERS)
    /\ LET userid == UNTAPPD_USERS[idx]
           prev == dict_get(LAST_CHECKIN, userid, PyInt(0))
       IN  \E net \in Failures \cup AnyBatch(userid, upstream, min_id(prev)) :
             \E ok \in 0..posts(prev, net) : main_user(userid, net, ok)

\* one iteration of main's loop, the API honouring min_id
main_min_id ==
    /\ pc = "callback"
    /\ idx <= Len(UNTAPPD_USERS)
    /\ LET userid == UNTAPPD_USERS[idx]
           prev == dict_get(LAST_CHECKIN, userid, PyInt(0))
       IN  \E net \in Failures \cup NewerBatch(userid, upstream, min_id(prev)) :
             \E ok \in 0..posts(prev, net) : main_user(userid, net, ok)

\* the callback returned: run's else clause
run_else ==
    /\ pc = "callback"
    /\ idx > Len(UNTAPPD_USERS)
    /\ log' = "finished successfully"
    /\ pc' = "scheduled"
    /\ UNCHANGED <<LAST_CHECKIN, upstream, idx, raised, fetched, seen, step>>
    /\ UNCHANGED uvars

\* the callback raised an Exception: run's except clause
run_except ==
    /\ pc = "raised"
    /\ IsException(raised)
    /\ log' = "CRASHED"
    /\ pc' = "scheduled"
    /\ UNCHANGED <<LAST_CHECKIN, upstream, idx, raised, fetched, seen, step>>
    /\ UNCHANGED uvars

\* SystemExit leaves run; the scheduler's executor keeps the job scheduled
job_error ==
    /\ pc = "raised"
    /\ ~IsException(raised)
    /\ pc' = "scheduled"
    /\ UNCHANGED <<LAST_CHECKIN, upstream, idx, raised, log, fetched, seen, step>>
    /\ UNCHANGED uvars

\* SystemExit reaches schedule.start(): the except clause of __main__ passes
exit ==
    /\ pc = "raised"
    /\ ~IsException(raised)
    /\ pc' = "exited"
    /\ UNCHANGED <<LAST_CHECKIN, upstream, idx, raised, log, fetched, seen, step>>
    /\ UNCHANGED uvars

Next ==
    \/ \E u \in Users : checkin(u)
    \/ run
    \/ main
    \/ run_else
    \/ run_except
    \/ job_error
    \/ exit

Spec == Init /\ [][Next]_vars

NextMinId ==
    \/ \E u \in Users : checkin(u)
    \/ run
    \/ main_min_id
    \/ run_else
    \/ run_except
    \/ job_error
    \/ exit

SpecMinId == Init /\ [][NextMinId]_vars

\* ------------------------------------------------------------ untappd.py
\* the users of the feed's check-ins, lower-cased
FeedUsers == {"alice", "bo", "carol"}

\* `user in cfg.get('untappd', 'users')`, the option being the text
\* "alice,bob": a substring test, which "bo" passes as well
in_users(user) == user \in {"alice", "bo"}

\* one item of checkin/recent
FeedCheckin(i, user) == [checkin_id |-> i, user_name |-> user]

\* the answers with code 200: any of the feed's check-ins, in any order
FeedBatch ==
    {Json(200, "", [i \in 1..Len(p) |-> FeedCheckin(p[i], w[i])]) :
        <<p, w>> \in {<<q, x>> \in Orderings(1..MaxId)
                                   \X UNION {[1..k -> FeedUsers] : k \in 0..MaxId} :
                         Len(q) = Len(x)}}

\* requests.get(...) fails, or answers with a code that is not 200
FeedFailures ==
    {NoBody("ConnectionError"), NoBody("ValueError"),
     Json(500, "invalid_limit", <<>>)}

\* a run starts: requests.get(getURL('checkin/recent')) and the test of the
\* code
u_get ==
    /\ upc \in {"idle", "end", "crashed"}
    /\ \E net \in FeedFailures \cup FeedBatch :
          /\ udata' = net
          /\ uraised' = IF net.kind = "json" THEN "none" ELSE net.kind
          /\ upc' = IF net.kind = "ConnectionError" THEN "except"
                    ELSE IF net.kind # "json" THEN "crashed"
                    ELSE IF net.meta.code = 200 THEN "loop"
                    ELSE "end"
    /\ ui' = 1
    /\ unotified' = 0
    /\ uwritten' = FALSE
    /\ ubefore' = lastseen
    /\ UNCHANGED <<lastseen, vars>>

\* one turn of the loop over the items: notifySlack for a user of the
\* option 'users', and requests.post gets through or raises
u_notify ==
    /\ upc = "loop"
    /\ ui <= Len(udata.response.checkins.items)
    /\ \/ /\ ~in_users(udata.response.checkins.items[ui].user_name)
          /\ ui' = ui + 1
          /\ UNCHANGED <<upc, unotified, uraised>>
       \/ /\ in_users(udata.response.checkins.items[ui].user_name)
          /\ ui' = ui + 1
          /\ unotified' = unotified + 1
          /\ UNCHANGED <<upc, uraised>>
       \/ /\ in_users(udata.response.checkins.items[ui].user_name)
          /\ upc' = "except"
          /\ uraised' = "ConnectionError"
          /\ UNCHANGED <<ui, unotified>>
    /\ UNCHANGED <<lastseen, udata, uwritten, ubefore, vars>>

\* 'lastseen' written while the loop is still running
u_save_early ==
    /\ upc = "loop"
    /\ \/ /\ ~uwritten
          /\ udata.response.checkins.count # 0
          /\ lastseen' = str(PyInt(max_checkin_id(udata.response.checkins.items)))
          /\ uwritten' = TRUE
          /\ upc' = upc
       \/ /\ ui > Len(udata.response.checkins.items)
          /\ uwritten \/ udata.response.checkins.count = 0
          /\ upc' = "end"
          /\ UNCHANGED <<lastseen, uwritten>>
    /\ UNCHANGED <<udata, ui, unotified, uraised, ubefore, vars>>

\* after the loop: `if count:` cfg.set('untappd', 'lastseen', str(max id))
\* and the file is written
u_save ==
    /\ upc = "loop"
    /\ ui > Len(udata.response.checkins.items)
    /\ IF udata.response.checkins.count # 0
       THEN /\ lastseen' = str(PyInt(max_checkin_id(udata.response.checkins.items)))
            /\ uwritten' = TRUE
       ELSE UNCHANGED <<lastseen, uwritten>>
    /\ upc' = "end"
    /\ UNCHANGED <<udata, ui, unotified, uraised, ubefore, vars>>

\* except requests.ConnectionError: print 'Connection Error'
u_except ==
    /\ upc = "except"
    /\ upc' = "end"
    /\ UNCHANGED <<lastseen, udata, ui, unotified, uraised, uwritten, ubefore, vars>>

InitU ==
    /\ \E n \in 0..MaxId : InitUntappd(str(PyInt(n)))
    /\ LAST_CHECKIN = EmptyDict
    /\ upstream = [u \in Users |-> 0]
    /\ pc = "scheduled"
    /\ idx = 1
    /\ raised = "none"
    /\ log = "Registered"
    /\ fetched = {}
    /\ seen = [u \in Users |-> FALSE]
    /\ step = NoStep

NextU ==
    \/ u_get
    \/ u_notify
    \/ u_save
    \/ u_except

SpecUntappd == InitU /\ [][NextU]_uvars

\* ---------------------------------------------------------------- claims
\* the last call of process_user_checkins, as the claims speak of it
Stepped == step.userid # ""

StepAbsent == step.userid \notin DOMAIN step.before

StepPrev == dict_get(step.before, step.userid, PyInt(0))

StepItems == step.net.response.checkins.items

Ok200 == step.net.kind = "json" /\ step.net.meta.code = 200

FetchFailed == Stepped /\ ~Ok200

Transient ==
    \/ step.net.kind \in {"Timeout", "RequestException"}
    \/ /\ step.net.kind = "json"
       /\ step.net.meta.code # 200
       /\ step.net.meta.error_type = "invalid_limit"

DeliveryFailed == Ok200 /\ step.raises = "SystemExit"

\* the user's entry of LAST_CHECKIN is as it was before the call
SameEntry ==
    /\ (step.userid \in DOMAIN LAST_CHECKIN) <=> (step.userid \in DOMAIN step.before)
    /\ step.userid \in DOMAIN LAST_CHECKIN
          => LAST_CHECKIN[step.userid] = step.before[step.userid]

StepIds == {StepItems[i].checkin_id : i \in 1..Len(StepItems)}

IsNewest(id) == id \in StepIds /\ \A j \in StepIds : j <= id

\* how many check-in posts of the call were made for the check-in `id`
PostsFor(id) ==
    Cardinality({k \in 1..Len(step.sent) :
        step.sent[k].shape = "checkin" /\ step.sent[k].icon_url = id})

\* the invocation of main is over and it raised
CycleFailed == pc \in {"scheduled", "exited"} /\ raised # "none"

Position(u) == CHOOSE i \in 1..Len(UNTAPPD_USERS) : UNTAPPD_USERS[i] = u

\* C1: a user without a cursor whose fetch answers 200 with a non-empty
\* batch gets the batch's newest id as cursor, and nothing is posted
C1_FirstCycleSeeds ==
    (Stepped /\ StepAbsent /\ Ok200 /\ StepItems # <<>>)
        => /\ step.userid \in DOMAIN LAST_CHECKIN
           /\ IsNewest(LAST_CHECKIN[step.userid].v)
           /\ step.sent = <<>>

C1_Witness ==
    /\ Stepped /\ StepAbsent /\ Ok200
    /\ Len(StepItems) = 2
    /\ step.userid \in DOMAIN LAST_CHECKIN
    /\ LAST_CHECKIN[step.userid].v = 2

\* C2: with a cursor C, a call whose posts all get through makes exactly
\* one check-in post for each item of the batch with id > C and none for
\* an item with id <= C
C2_NewCheckinsOnceOldNever ==
    (Stepped /\ ~StepAbsent /\ Ok200 /\ step.raises = "none")
        => \A id \in StepIds :
              PostsFor(id) = IF id > StepPrev.v THEN 1 ELSE 0

\* C3: with a cursor C, a batch whose newest id is C posts nothing and
\* leaves the cursor as it was
C3_NewestEqualsCursorIsSilent ==
    (Stepped /\ ~StepAbsent /\ Ok200 /\ IsNewest(StepPrev.v))
        => step.sent = <<>> /\ SameEntry

\* C4: a timeout, a connection error or a rate-limit answer leaves the
\* user's cursor as it was (absent or set) and posts nothing
C4_TransientFailureKeepsCursor ==
    (Stepped /\ Transient) => SameEntry /\ step.sent = <<>>

C4_Witness ==
    /\ Stepped /\ Transient
    /\ step.net.meta.error_type = "invalid_limit"
    /\ step.userid \in DOMAIN LAST_CHECKIN

\* C5: when a user's fetch fails transiently, the users after it in
\* UNTAPPD_USERS are still processed in the same invocation of main
C5_LaterUsersStillProcessed ==
    (CycleFailed /\ Transient)
        => \A j \in 1..Len(UNTAPPD_USERS) :
              j > Position(step.userid) => UNTAPPD_USERS[j] \in fetched

\* C6: a cursor that is set never decreases over a call, whatever the batch
C6_CursorNeverDecreases ==
    (Stepped /\ ~StepAbsent)
        => /\ step.userid \in DOMAIN LAST_CHECKIN
           /\ LAST_CHECKIN[step.userid].v >= step.before[step.userid].v

\* C7: a call made while the user's upstream check-ins are those of the
\* user's previous 200 answer posts nothing and leaves the cursor as it was
C7_UnchangedUpstreamIsSilent ==
    (Stepped /\ step.same) => step.sent = <<>> /\ SameEntry

C7_Witness ==
    /\ Stepped /\ step.same /\ Ok200
    /\ upstream[step.userid] = MaxId
    /\ step.userid \in DOMAIN LAST_CHECKIN

\* C8: whatever an invocation of main raises, run catches it (it logs
\* CRASHED) and the job stays scheduled
C8_RunCatchesEveryFailure ==
    CycleFailed => log = "CRASHED" /\ pc = "scheduled"

\* C9: in an invocation where one user's fetch fails, every other user of
\* UNTAPPD_USERS is still fetched
C9_OtherUsersStillFetched ==
    (CycleFailed /\ FetchFailed) => (Users \ {step.userid}) \subseteq fetched

\* C10: a post that fails aborts nothing: the other posts of the batch are
\* made, the users after are processed, the process does not exit
C10_FailedPostAbortsNothing ==
    (CycleFailed /\ DeliveryFailed)
        => /\ pc = "scheduled"
           /\ fetched = Users
           /\ Len(step.sent) + 1 >= Len(checkin_messages(StepItems, <<>>))

\* the number of badges of the batch's check-in `id`
BadgesOf(id) ==
    StepItems[CHOOSE i \in 1..Len(StepItems) : StepItems[i].checkin_id = id].badges

C12_IncreasingIdOrder ==
    Stepped =>
        \A j, k \in 1..Len(step.sent) :
            (j < k /\ step.sent[j].shape = "checkin"
                   /\ step.sent[k].shape = "checkin")
                => step.sent[j].icon_url < step.sent[k].icon_url

\* C13: when a user's fetch fails on the connection in a call that follows
\* a call of the same user that failed the same way (a persistent
\* failure), the user's cursor is cleared before the call ends
C13_PersistentFailureClearsCursor ==
    [][(/\ pc = "callback"
        /\ pc' = "raised"
        /\ step.userid = UNTAPPD_USERS[idx]
        /\ step.net.kind = "RequestException"
        /\ step'.net.kind = "RequestException")
          => UNTAPPD_USERS[idx] \notin DOMAIN LAST_CHECKIN']_vars

\* C14: when an invocation fired by the interval begins, a cycle over the
\* users has already been run at startup
C14_StartupCycleBeforeInterval ==
    (pc = "callback" /\ idx = 1 /\ fetched = {}) => Stepped

\* C15: no text that is posted, in either shape, carries a tag that came
\* from Untappd (the <url|name> links the program writes itself are not
\* meant)
C15_UpstreamMarkupStripped ==
    Stepped =>
        \A k \in 1..Len(step.sent) :
            \A i \in 1..Len(step.sent[k].text) :
                step.sent[k].text[i].markup
                    => step.sent[k].text[i].part = "link"

\* the check-in a post is about
PostId(p) == IF p.shape = "checkin" THEN p.icon_url ELSE p.title

\* C16: with an API that honours min_id, the cursor is at the batch's newest
\* id also when a failed post ended the call, it never goes back, and no
\* call posts for an id at or below the cursor it started from: what a call
\* posted, and what an ended call left unposted, is never posted later
C16_AdvanceBeforePosting ==
    /\ (Stepped /\ Ok200 /\ StepItems # <<>>)
          => /\ step.userid \in DOMAIN LAST_CHECKIN
             /\ IsNewest(LAST_CHECKIN[step.userid].v)
    /\ (Stepped /\ ~StepAbsent)
          => /\ step.userid \in DOMAIN LAST_CHECKIN
             /\ LAST_CHECKIN[step.userid].v >= StepPrev.v
             /\ \A k \in 1..Len(step.sent) : PostId(step.sent[k]) > StepPrev.v

C16_Witness ==
    /\ Stepped /\ ~StepAbsent /\ DeliveryFailed
    /\ Len(step.sent) >= 1
    /\ LAST_CHECKIN[step.userid].v > StepPrev.v

\* C17: a 200 answer with an empty batch leaves the user's cursor as it was
\* (absent or set) and posts nothing
C17_EmptyBatchChangesNothing ==
    (Stepped /\ Ok200 /\ StepItems = <<>>) => SameEntry /\ step.sent = <<>>

C17_Witness ==
    /\ Stepped /\ Ok200 /\ StepItems = <<>>
    /\ ~StepAbsent
    /\ upstream[step.userid] > 0

\* C18: the text of a check-in post holds the text of that one check-in
\* and of no other check-in of the batch
C18_PostHoldsOwnTextOnly ==
    Stepped =>
        \A k \in 1..Len(step.sent) :
            step.sent[k].shape = "checkin" =>
                \A i \in 1..Len(step.sent[k].text) :
                    step.sent[k].text[i].checkin_id = step.sent[k].icon_url

\* the entry of user v is as it was before the last call
SameEntryOf(v) ==
    /\ (v \in DOMAIN LAST_CHECKIN) <=> (v \in DOMAIN step.before)
    /\ v \in DOMAIN LAST_CHECKIN => LAST_CHECKIN[v] = step.before[v]

\* C19: a call for one user, whatever its outcome, leaves the cursor of
\* every other user as it was
C19_OtherCursorsUntouched ==
    Stepped => \A v \in Users \ {step.userid} : SameEntryOf(v)

C19_Witness ==
    /\ Stepped /\ Ok200
    /\ \E v \in Users \ {step.userid} :
          /\ v \in DOMAIN LAST_CHECKIN
          /\ step.userid \in DOMAIN LAST_CHECKIN
          /\ LAST_CHECKIN[v].v \in StepIds
          /\ LAST_CHECKIN[v] # LAST_CHECKIN[step.userid]
          /\ LAST_CHECKIN[step.userid] # StepPrev

\* the posts a run makes when none fails: one for each item of a user of
\* the option 'users'
UPosts ==
    Cardinality({i \in 1..Len(udata.response.checkins.items) :
        in_users(udata.response.checkins.items[i].user_name)})

\* C20: untappd.py writes 'lastseen' only after every post of the run got
\* through and only for an answer with code 200 and a count that is not 0;
\* a run in which the fetch or a post raised ConnectionError leaves the
\* 'lastseen' of the file as it was
C20_LastseenWrittenLast ==
    /\ uwritten
          => /\ udata.kind = "json"
             /\ udata.meta.code = 200
             /\ udata.response.checkins.count # 0
             /\ ui > Len(udata.response.checkins.items)
             /\ unotified = UPosts
             /\ uraised = "none"
    /\ ~uwritten => lastseen = ubefore
    /\ uraised = "ConnectionError" => lastseen = ubefore

C20_Witness ==
    /\ uwritten
    /\ unotified >= 1
    /\ lastseen # ubefore
====
